---- MODULE Spec2Model ----
(***************************************************************************)
(* Model of the refinement orchestration of qa-agency:                     *)
(* phase_3_iterative_testing (udp_qa_agent.py) together with the process   *)
(* supervisor, test runner and backend call of agent_utils.py and the      *)
(* prompt builders of agent_prompts.py.                                     *)
(*                                                                         *)
(* Spec and FairSpec are the refinement loop of phase 3; GenSpec is main   *)
(* with phases 1 and 2 (checkout, reference file, catalog, generation);    *)
(* UtilSpec applies the utilities of agent_utils.py (test runner, backend  *)
(* call with fence stripping, artifact store) to their inputs, character   *)
(* by character.                                                           *)
(*                                                                         *)
(* Text is a sequence of tokens.  The stderr of a test run is a sequence   *)
(* of one-character strings, so that the `in` operator of Python is a real *)
(* substring search; its stdout, which is only cut and passed on, is a     *)
(* string.  In a backend response each of the two literal                  *)
(* markers is one token (neither marker is a substring of the other and    *)
(* no proper suffix of one is a prefix of the other, so a response         *)
(* tokenises uniquely).                                                    *)
(***************************************************************************)
EXTENDS Integers, Sequences, FiniteSets, TLC

\* ---------------------------------------------------------------- bounds
NumAssets == 2

\* record blocks in one catalog text
MaxBlocks == 3

\* source files phase 1 finds in the cloned repository
MaxFiles == 1

\* ------------------------------------------------------ program constants
MAX_REFINEMENT_RETRIES == 3

\* ghost counters saturate here, so that a loop that fails to terminate
\* still has finitely many states
CounterCap == MAX_REFINEMENT_RETRIES + 2

Assets == 1..NumAssets

Bump(n) == IF n < CounterCap THEN n + 1 ELSE n

\* ----------------------------------------------------------- text helpers
new_mock_code_marker == "Updated Mock Code:"
new_test_code_marker == "Updated Test Script Code:"

Whitespace == {" ", "\n"}

\* Python: t in s
Contains(s, t) ==
    \E i \in 1..(Len(s) - Len(t) + 1) : SubSeq(s, i, i + Len(t) - 1) = t

\* index of the first occurrence of t in s (t occurs in s)
FindFirst(s, t) ==
    CHOOSE i \in 1..(Len(s) - Len(t) + 1) :
        /\ SubSeq(s, i, i + Len(t) - 1) = t
        /\ \A j \in 1..(i - 1) : SubSeq(s, j, j + Len(t) - 1) # t

\* Python: s.split(t, 1)[0] and s.split(t, 1)[1], for t in s
SplitBefore(s, t) == SubSeq(s, 1, FindFirst(s, t) - 1)
SplitAfter(s, t) == SubSeq(s, FindFirst(s, t) + Len(t), Len(s))

RECURSIVE LStrip(_)
LStrip(s) ==
    IF s # <<>> /\ Head(s) \in Whitespace THEN LStrip(Tail(s)) ELSE s

RECURSIVE RStrip(_)
RStrip(s) ==
    IF s # <<>> /\ s[Len(s)] \in Whitespace
    THEN RStrip(SubSeq(s, 1, Len(s) - 1))
    ELSE s

\* Python: s.strip()
Strip(s) == RStrip(LStrip(s))

\* ------------------------------------------------- inputs: test run results
StderrOk == <<"3", "\n", "O", "K">>
StderrFailed == <<"F", "A", "I", "L", "E", "D">>
StderrError == <<"E", "R", "R", "O", "R">>
StderrOkAndError == <<"O", "K", " ", "E", "R", "R", "O", "R">>
StderrTimedOut == <<"t", "i", "m", "e", "d", " ", "o", "u", "t">>

\* utils.py 306-309: the timeout message names the script path; here a path
\* with the letters OK in it
StderrTimedOutNamed ==
    <<"O", "K", " ", "t", "i", "m", "e", "d", " ", "o", "u", "t">>

TimeoutMessages == {StderrTimedOut, StderrTimedOutNamed}

\* agent_prompts.py 148: the prompt builders cut their inputs to max_len
\* characters (code, QA snippet) and to max_len // 2 (output, logs)
max_len == 2000

\* the stdout of a test run is a string; LongStdout is the output of a test
\* that prints max_len // 2 + 1 characters
Stdout10 == "oooooooooo"
Stdout100 ==
    Stdout10 \o Stdout10 \o Stdout10 \o Stdout10 \o Stdout10 \o Stdout10
        \o Stdout10 \o Stdout10 \o Stdout10 \o Stdout10
Stdout1000 ==
    Stdout100 \o Stdout100 \o Stdout100 \o Stdout100 \o Stdout100
        \o Stdout100 \o Stdout100 \o Stdout100 \o Stdout100 \o Stdout100
LongStdout == Stdout1000 \o "o"

\* (stdout, stderr, return_code) as returned by run_script_and_get_output
RunResults ==
    { [out |-> "o", err |-> StderrOk, rc |-> 0],
      [out |-> "o", err |-> StderrOk, rc |-> 1],
      [out |-> LongStdout, err |-> StderrFailed, rc |-> 1],
      [out |-> "o", err |-> StderrOkAndError, rc |-> 0],
      [out |-> "", err |-> <<>>, rc |-> 0],
      [out |-> "", err |-> StderrTimedOut, rc |-> 1],
      [out |-> "", err |-> StderrTimedOutNamed, rc |-> 1] }

\* ------------------------------------------------- inputs: backend results
\* what call_ollama_llm gives its caller: text, None, or an exception that
\* is not one of the three it catches (e.g. a payload that is not a JSON
\* object with a string "response")
LLMResults ==
    { [kind |-> "raise", text |-> <<>>],
      [kind |-> "none", text |-> <<>>],
      [kind |-> "text", text |-> <<>>],
      [kind |-> "text", text |-> <<"x">>],
      [kind |-> "text", text |-> <<new_mock_code_marker, " ", "p", "\n">>],
      [kind |-> "text", text |-> <<new_test_code_marker, "q">>],
      [kind |-> "text",
       text |-> <<"x", new_mock_code_marker, "p", new_test_code_marker, "q",
                  new_mock_code_marker, "r">>],
      [kind |-> "text",
       text |-> <<new_test_code_marker, "q", new_mock_code_marker, "p",
                  new_test_code_marker, "r">>] }

\* ------------------------------------------------ inputs: process start
\* Popen succeeded and the process is alive at the poll; Popen succeeded and
\* the process exited within the grace interval; Popen raised
StartResults == {"alive", "exited", "launch_raised"}

NoProcess == 0

\* ------------------------------------------------ catalog text (phase 2)
\* The backend's service-identification text is a sequence of lines; a line
\* is its field prefix (tag, "" when the line starts with none of the three
\* prefixes) and the rest of the line (val, a sequence of characters).
NameTag == "Service Name:"
PortTag == "Port:"
FuncTag == "Functionality Summary:"

Digits == <<"0", "1", "2", "3", "4", "5", "6", "7", "8", "9">>

IsDigit(c) == \E i \in 1..10 : Digits[i] = c

DigitVal(c) == (CHOOSE i \in 1..10 : Digits[i] = c) - 1

RECURSIVE DigitsVal(_)
DigitsVal(cs) ==
    IF cs = <<>> THEN 0
    ELSE 10 * DigitsVal(SubSeq(cs, 1, Len(cs) - 1)) + DigitVal(cs[Len(cs)])

AllDigits(cs) == cs # <<>> /\ \A i \in 1..Len(cs) : IsDigit(cs[i])

\* Python: int(s) for a stripped s; ok = FALSE stands for ValueError
ParseInt(cs) ==
    IF cs # <<>> /\ Head(cs) \in {"-", "+"}
    THEN IF AllDigits(Tail(cs))
         THEN [ok |-> TRUE,
               v |-> IF Head(cs) = "-" THEN 0 - DigitsVal(Tail(cs))
                     ELSE DigitsVal(Tail(cs))]
         ELSE [ok |-> FALSE, v |-> 0]
    ELSE IF AllDigits(cs)
         THEN [ok |-> TRUE, v |-> DigitsVal(cs)]
         ELSE [ok |-> FALSE, v |-> 0]

\* Python: str.lower() and str.replace(" ", "_"), character by character
LowerChar(c) ==
    CASE c = "S" -> "s"
      [] c = "N" -> "n"
      [] c = "C" -> "c"
      [] OTHER -> c

Lower(cs) == [i \in 1..Len(cs) |-> LowerChar(cs[i])]

ReplaceSpaces(cs) == [i \in 1..Len(cs) |-> IF cs[i] = " " THEN "_" ELSE cs[i]]

\* "no clear services can be identified", abbreviated to its initials with
\* the spaces kept, in lower case and as a backend may capitalise it
NoClearPhrase == <<"n", " ", "c", " ", "s">>
NoClearPhraseCapitalised == <<"N", " ", "C", " ", "S">>

\* the port texts a block may carry: valid, non-numeric, zero, negative
PortTexts == {<<"8", "0">>, <<"x">>, <<"0">>, <<"-", "5">>}

PortKinds == PortTexts \cup {<<"missing">>}

BlockLines(i, k) ==
    <<[tag |-> NameTag, val |-> <<"S", Digits[i + 1]>>]>>
    \o (IF k = <<"missing">> THEN <<>>
        ELSE <<[tag |-> PortTag, val |-> k]>>)
    \o <<[tag |-> FuncTag, val |-> <<"f", Digits[i + 1]>>],
         [tag |-> "", val |-> <<>>]>>

RECURSIVE CatalogLines(_, _)
CatalogLines(kinds, i) ==
    IF i > Len(kinds) THEN <<>>
    ELSE BlockLines(i, kinds[i]) \o CatalogLines(kinds, i + 1)

\* two records whose names differ and normalise to the same service name,
\* with the same port
DuplicateBlocks ==
    BlockLines(1, <<"8", "0">>)
    \o <<[tag |-> NameTag, val |-> <<"s", "1">>],
         [tag |-> PortTag, val |-> <<"8", "0">>],
         [tag |-> FuncTag, val |-> <<"f", "2">>],
         [tag |-> "", val |-> <<>>]>>

\* what call_ollama_llm returns for the service-identification prompt
CatalogTexts ==
    { [kind |-> "none", lines |-> <<>>],
      [kind |-> "text", lines |-> <<[tag |-> "", val |-> <<"h", "i">>]>>],
      [kind |-> "text", lines |-> <<[tag |-> "", val |-> NoClearPhrase]>>],
      [kind |-> "text",
       lines |-> <<[tag |-> "", val |-> NoClearPhraseCapitalised]>>
                 \o BlockLines(1, <<"8", "0">>)],
      [kind |-> "text", lines |-> DuplicateBlocks] }
    \cup { [kind |-> "text", lines |-> CatalogLines(kinds, 1)] :
             kinds \in UNION { [1..n -> PortKinds] : n \in 0..MaxBlocks } }

\* what call_ollama_llm returns for a mock or test generation prompt, and
\* whether the write of the generated file succeeds
GenResults == {"none", "empty", "code"}

\* ------------------------------------- inputs: one run of a test script
\* what subprocess.run does inside run_script_and_get_output: it completes
\* with the script's output and exit code, or raises FileNotFoundError,
\* TimeoutExpired, or another exception whose str() is msg (str() of an
\* exception without arguments, such as MemoryError(), is empty)
NoRunEvent ==
    [kind |-> "idle", out |-> "", err |-> <<>>, rc |-> 0, msg |-> <<>>]

RunEvents ==
    { [kind |-> "completed", out |-> r.out, err |-> r.err, rc |-> r.rc,
       msg |-> <<>>] : r \in {x \in RunResults : x.err \notin TimeoutMessages} }
    \cup { [kind |-> k, out |-> "", err |-> <<>>, rc |-> 0, msg |-> <<>>] :
             k \in {"not_found", "timeout"} }
    \cup { [kind |-> "exception", out |-> "", err |-> <<>>, rc |-> 0,
            msg |-> m] : m \in {<<"d", "e", "n", "i", "e", "d">>, <<>>} }

NotFoundMessage == <<"n", "o", "t", " ", "f", "o", "u", "n", "d">>

\* agent_utils.py 177-199
run_script_and_get_output(ev) ==
    CASE ev.kind = "completed" ->
             [out |-> ev.out, err |-> ev.err, rc |-> ev.rc]
      [] ev.kind = "not_found" ->
             [out |-> "", err |-> NotFoundMessage, rc |-> 1]
      [] ev.kind = "timeout" ->
             [out |-> "", err |-> StderrTimedOut, rc |-> 1]
      [] OTHER ->
             [out |-> "", err |-> ev.msg, rc |-> 1]

\* ------------------------------------------ inputs: one backend request
\* the backtick character
BackTick == "BT"

Fence == <<BackTick, BackTick, BackTick>>
PythonTag == <<"p", "y", "t", "h", "o", "n">>

\* language tags after an opening fence: none, python, and two others
FenceTags == {<<>>, PythonTag, <<"b", "a", "s", "h">>, <<"p", "y">>}

\* the text between the fences (no white space at either end)
InnerTexts == {<<"x">>, <<"a", "\n", "b">>}

NoBackendEvent ==
    [kind |-> "idle", open |-> FALSE, close |-> FALSE, tag |-> <<>>,
     inner |-> <<>>]

\* requests.post raises Timeout or another RequestException, the status is
\* an HTTP error, the body is not JSON, the JSON value is not an object,
\* its "response" is not a string, it has no "response", or "response" is
\* a text with or without fences
BackendFailureKinds ==
    {"timeout", "connection_error", "http_error", "undecodable",
     "not_object", "response_not_text"}

BackendEvents ==
    { [kind |-> k, open |-> FALSE, close |-> FALSE, tag |-> <<>>,
       inner |-> <<>>] : k \in BackendFailureKinds \cup {"no_response_key"} }
    \cup { [kind |-> "text", open |-> TRUE, close |-> c, tag |-> t,
            inner |-> x] :
             c \in BOOLEAN, t \in FenceTags, x \in InnerTexts }
    \cup { [kind |-> "text", open |-> FALSE, close |-> c, tag |-> <<>>,
            inner |-> x] : c \in BOOLEAN, x \in InnerTexts }

\* the "response" text of a text event
Body(ev) ==
    (IF ev.open THEN Fence \o ev.tag \o <<"\n">> ELSE <<>>)
    \o ev.inner
    \o (IF ev.close THEN <<"\n">> \o Fence ELSE <<>>)

StartsWith(s, t) == Len(s) >= Len(t) /\ SubSeq(s, 1, Len(t)) = t

EndsWith(s, t) ==
    Len(s) >= Len(t) /\ SubSeq(s, Len(s) - Len(t) + 1, Len(s)) = t

\* agent_utils.py 117-123 (utils.py 185-195)
CleanCodeBlock(text) ==
    LET opened ==
            IF StartsWith(text, Fence \o PythonTag)
            THEN Strip(SubSeq(text, Len(Fence \o PythonTag) + 1, Len(text)))
            ELSE IF StartsWith(text, Fence)
            THEN Strip(SubSeq(text, Len(Fence) + 1, Len(text)))
            ELSE text
    IN  IF EndsWith(opened, Fence)
        THEN Strip(SubSeq(opened, 1, Len(opened) - Len(Fence)))
        ELSE opened

\* agent_utils.py 93-134: the three except clauses return None; the
\* AttributeError of .get on a value that is no dict and of .strip on a
\* value that is no str is not caught
call_ollama_llm(ev) ==
    IF ev.kind \in {"timeout", "connection_error", "http_error",
                    "undecodable"}
    THEN [kind |-> "none", text |-> <<>>]
    ELSE IF ev.kind \in {"not_object", "response_not_text"}
    THEN [kind |-> "raise", text |-> <<>>]
    ELSE IF ev.kind = "no_response_key"
    THEN [kind |-> "text", text |-> CleanCodeBlock(Strip(<<>>))]
    ELSE [kind |-> "text", text |-> CleanCodeBlock(Strip(Body(ev)))]

\* --------------------------------------------- inputs: artifact content
\* code the controller writes: with LF, CR LF and CR line ends; CR is the
\* carriage-return character
CR == "CR"
LF == "\n"

CodeTexts ==
    { <<"a", LF, "b">>, <<"a", CR, LF, "b">>, <<"a", CR, "b">>, <<"a">> }

\* agent_utils.py 86-87: a file opened for writing in text mode writes LF
\* as os.linesep, which is LF on the platforms the agent runs on
WriteText(code) == code

\* agent_utils.py 76-77: a file opened for reading in text mode reads
\* CR LF and CR as LF
RECURSIVE ReadText(_)
ReadText(data) ==
    IF data = <<>> THEN <<>>
    ELSE IF Len(data) >= 2 /\ data[1] = CR /\ data[2] = LF
    THEN <<LF>> \o ReadText(SubSeq(data, 3, Len(data)))
    ELSE IF data[1] = CR
    THEN <<LF>> \o ReadText(Tail(data))
    ELSE <<data[1]>> \o ReadText(Tail(data))

\* ------------------------------------------------------------------ state
VARIABLES
    pc,                        \* position of the controller in phase_3
    idx,                       \* index of the asset of the outer for loop
    attempt,                   \* loop variable of the inner for loop
    brk,                       \* the attempt leaves the inner loop by break
    all_tests_passed_overall,
    passed,                    \* "unbound", "True" or "False"
    mock_process,              \* NoProcess or the handle of this attempt
    live,                      \* processes that are running
    held,                      \* handles acquired, stop not yet returned
    signals,                   \* signals the stop call of this attempt sent
    test_stdout, test_stderr, return_code,
    current_mock_code, current_test_code,
    files,                     \* artifact store: asset -> mock, test text
    outcome,                   \* per asset: state of the refinement machine
    reported,                  \* per asset: "did not achieve" was printed
    exit_path,                 \* how the current attempt ended
    nStarts, nTests, nRepairs, nEdge,  \* per-asset event counts
    fix_prompt,                \* the repair prompt built and not yet sent
    fix_suggestion,            \* the repair response of this attempt
    gpc,                       \* position in phase 2 and main
    identified_services_text,
    services_to_test,
    gi,                        \* index of the generation loop
    generated_assets,
    gfiles,                    \* paths that exist in mocks/ and tests/
    llm_calls,                 \* backend calls made in phase 2
    parser_invoked,            \* the line scan 123-138 has run
    attempted,                 \* services that passed the port filter
    cloned_repo_path,          \* "unset", "none" or "path"
    scanned,                   \* scan_files has been called
    p1_llm_calls,              \* backend calls made in phase 1
    qa_reference_file,         \* "unset", "none", "json" or "txt"
    qa_file_exists,            \* the reference file is in the store
    qa_read,                   \* what phase 2 got when it read it
    run_event, run_result,     \* last run_script_and_get_output call
    llm_event, llm_result,     \* last call_ollama_llm call
    disk,                      \* the file of one artifact path
    last_saved,                \* last save_code_to_file call on that path
    store_read                 \* what read_file_content returned since

vars == <<pc, idx, attempt, brk, all_tests_passed_overall, passed,
          mock_process, live, held, signals, test_stdout, test_stderr, return_code,
          current_mock_code, current_test_code, files, outcome, reported,
          exit_path, nStarts, nTests, nRepairs, nEdge, fix_prompt,
          fix_suggestion,
          gpc, identified_services_text, services_to_test, gi,
          generated_assets, gfiles, llm_calls, parser_invoked, attempted,
          cloned_repo_path, scanned, p1_llm_calls, qa_reference_file,
          qa_file_exists, qa_read,
          run_event, run_result, llm_event, llm_result, disk, last_saved,
          store_read>>

utilVars == <<run_event, run_result, llm_event, llm_result, disk,
              last_saved, store_read>>

upstreamVars == <<cloned_repo_path, scanned, p1_llm_calls,
                  qa_reference_file, qa_file_exists, qa_read>>

genVars == <<gpc, identified_services_text, services_to_test, gi,
             generated_assets, gfiles, llm_calls, parser_invoked, attempted,
             cloned_repo_path, scanned, p1_llm_calls, qa_reference_file,
             qa_file_exists, qa_read>>

phase3Vars == <<pc, idx, attempt, brk, all_tests_passed_overall, passed,
                mock_process, live, held, signals, test_stdout, test_stderr,
                return_code, current_mock_code, current_test_code, files,
                outcome, reported, exit_path, nStarts, nTests, nRepairs,
                nEdge, fix_prompt, fix_suggestion>>

Terminal == {"Passed", "Exhausted", "Aborted"}

\* ------------------------------------------------------- pure operators
\* udp_qa_agent.py 260-264: the verdict of one test run
CheckPassedNoExitCode(rc, stderr) ==
    IF /\ Contains(stderr, <<"O", "K">>)
       /\ ~Contains(stderr, <<"F", "A", "I", "L">>)
       /\ ~Contains(stderr, <<"E", "R", "R", "O", "R">>)
    THEN "True"
    ELSE "False"

CheckPassed(rc, stderr) ==
    IF /\ rc = 0
       /\ Contains(stderr, <<"O", "K">>)
       /\ ~Contains(stderr, <<"F", "A", "I", "L">>)
       /\ ~Contains(stderr, <<"E", "R", "R", "O", "R">>)
    THEN "True"
    ELSE IF \/ Contains(stderr, <<"F", "A", "I", "L">>)
            \/ Contains(stderr, <<"E", "R", "R", "O", "R">>)
         THEN "False"
         ELSE "False"

\* udp_qa_agent.py 267, 294, 340: the branch taken after the verdict
AfterClassifyAlwaysAugment(p, a) == "edge"

AfterClassifyFixOnLast(p, a) ==
    IF p = "True" THEN "edge"
    ELSE IF a <= MAX_REFINEMENT_RETRIES THEN "fix"
    ELSE "fallthrough"

AfterClassify(p, a) ==
    IF p = "True" THEN "edge"
    ELSE IF a < MAX_REFINEMENT_RETRIES THEN "fix"
    ELSE IF a = MAX_REFINEMENT_RETRIES THEN "exhausted"
    ELSE "fallthrough"

\* udp_qa_agent.py 220: for attempt in range(MAX_REFINEMENT_RETRIES + 1)
RangeHasNextOffByOne(a) == a + 1 < MAX_REFINEMENT_RETRIES + 2

RangeHasNext(a) == a + 1 < MAX_REFINEMENT_RETRIES + 1

NextAttemptStuck(a) == a

NextAttempt(a) == a + 1

\* agent_prompts.py 188-226: the names the f-string of the edge-case prompt
\* evaluates, and the names bound in the function (the module binds none of
\* them); an unbound name raises NameError
EdgePromptBound == {"port_number", "qa_snippet", "mock_code", "test_code",
                    "max_len"}
EdgePromptNames == {"port_Number", "qa_snippet", "mock_code", "test_code",
                    "port_number"}
EdgeCasePromptRaises == ~(EdgePromptNames \subseteq EdgePromptBound)

\* agent_utils.py 137-159: the handle start returns and the process it
\* leaves running
StartBackgroundProcessNoPoll(r, pid) ==
    IF r \in {"alive", "exited"}
    THEN [handle |-> pid, running |-> IF r = "alive" THEN {pid} ELSE {}]
    ELSE [handle |-> NoProcess, running |-> {}]

StartBackgroundProcess(r, pid) ==
    IF r = "alive"
    THEN [handle |-> pid, running |-> {pid}]
    ELSE [handle |-> NoProcess, running |-> {}]

\* agent_utils.py 161-174: the running processes after stop has returned;
\* ignoresTerm: the process does not exit on the graceful signal
StopBackgroundProcessNoKill(process, liveSet, ignoresTerm) ==
    IF process # NoProcess /\ process \in liveSet
    THEN IF ignoresTerm THEN liveSet ELSE liveSet \ {process}
    ELSE liveSet

StopBackgroundProcessInvertedPoll(process, liveSet, ignoresTerm) ==
    liveSet

StopBackgroundProcess(process, liveSet, ignoresTerm) ==
    IF process # NoProcess /\ process \in liveSet
    THEN LET afterTerminate ==
                 IF ignoresTerm THEN liveSet ELSE liveSet \ {process}
             timedOut == process \in afterTerminate
         IN  IF timedOut THEN afterTerminate \ {process} ELSE afterTerminate
    ELSE liveSet

\* agent_utils.py 163-171: the signals one stop call sends
StopSignalsNoPoll(process, liveSet, ignoresTerm) ==
    IF process # NoProcess
    THEN IF ignoresTerm \/ process \notin liveSet
         THEN <<"terminate", "kill">>
         ELSE <<"terminate">>
    ELSE <<>>

StopSignalsAlwaysKill(process, liveSet, ignoresTerm) ==
    IF process # NoProcess /\ process \in liveSet
    THEN <<"terminate", "kill">>
    ELSE <<>>

StopSignals(process, liveSet, ignoresTerm) ==
    IF process # NoProcess /\ process \in liveSet
    THEN IF ignoresTerm THEN <<"terminate", "kill">> ELSE <<"terminate">>
    ELSE <<>>

\* udp_qa_agent.py 350: if mock_process: (a Popen object is truthy)
FinallyStopsNever(process) == FALSE

FinallyStops(process) == process # NoProcess

\* udp_qa_agent.py 321-324 and 329-332
ExtractMockToEnd(fix) == Strip(SplitAfter(fix, <<new_mock_code_marker>>))

ExtractMock(fix) ==
    LET potential_new_mock == SplitAfter(fix, <<new_mock_code_marker>>)
    IN  Strip(IF Contains(potential_new_mock, <<new_test_code_marker>>)
              THEN SplitBefore(potential_new_mock, <<new_test_code_marker>>)
              ELSE potential_new_mock)

ExtractTest(fix) ==
    LET potential_new_test == SplitAfter(fix, <<new_test_code_marker>>)
    IN  Strip(IF Contains(potential_new_test, <<new_mock_code_marker>>)
              THEN SplitBefore(potential_new_test, <<new_mock_code_marker>>)
              ELSE potential_new_test)

\* udp_qa_agent.py 303-305, 336-338 and 345-348: the repair step leaves the
\* retry loop by break
FixBreaksOnlyWithoutMarkers(resp) ==
    \/ resp.kind = "raise"
    \/ /\ resp.kind = "text"
       /\ resp.text # <<>>
       /\ ~Contains(resp.text, <<new_mock_code_marker>>)
       /\ ~Contains(resp.text, <<new_test_code_marker>>)

FixBreaksOnlyWithoutResponse(resp) ==
    \/ resp.kind = "raise"
    \/ resp.kind = "none"
    \/ resp.text = <<>>

FixBreaks(resp) ==
    \/ resp.kind = "raise"
    \/ resp.kind = "none"
    \/ resp.text = <<>>
    \/ ~(\/ Contains(resp.text, <<new_mock_code_marker>>)
         \/ Contains(resp.text, <<new_test_code_marker>>))

\* agent_prompts.py 149-154: s[:n] if len(s) > n else s
Truncate(s, n) == IF Len(s) > n THEN SubSeq(s, 1, n) ELSE s

\* udp_qa_agent.py 299: the mock logs the controller passes
MockLogsPlaceholder == <<"Mock logs not captured in this version.">>

\* agent_prompts.py 143-186: the parts of the repair prompt that vary
get_udp_fix_failure_promptRaw(mock_code, test_code, stdout, stderr, mock_logs) ==
    [mock |-> mock_code, test |-> test_code, out |-> stdout,
     err |-> stderr, mock_logs |-> mock_logs]

get_udp_fix_failure_prompt(mock_code, test_code, stdout, stderr, mock_logs) ==
    [mock |-> Truncate(mock_code, max_len),
     test |-> Truncate(test_code, max_len),
     out |-> Truncate(stdout, max_len \div 2),
     err |-> Truncate(stderr, max_len \div 2),
     mock_logs |-> Truncate(mock_logs, max_len \div 2)]

\* no prompt is pending; no response was received in this attempt
NoPrompt ==
    [mock |-> <<>>, test |-> <<>>, out |-> "", err |-> <<>>,
     mock_logs |-> <<>>]

NoSuggestion == [kind |-> "unset", text |-> <<>>]

\* agent_utils.py 82-90 and 73-80; ok = FALSE: makedirs or open raised, the
\* handler printed the error and the file is as it was
save_code_to_fileBothTargets(store, a, which, code, ok) ==
    IF ok THEN [store EXCEPT ![a] = [mock |-> code, test |-> code]]
    ELSE store

save_code_to_file(store, a, which, code, ok) ==
    IF ok THEN [store EXCEPT ![a] = [@ EXCEPT ![which] = code]] ELSE store

read_file_content(store, a, which) == store[a][which]

\* the handle of the process started for asset i in attempt a
Pid(i, a) == (i - 1) * (CounterCap + 1) + a + 1

\* ------------------------------------------------------------------ Init
Init ==
    /\ pc = "asset"
    /\ idx = 1
    /\ attempt = 0
    /\ brk = FALSE
    /\ all_tests_passed_overall = TRUE
    /\ passed = "unbound"
    /\ mock_process = NoProcess
    /\ live = {}
    /\ held = {}
    /\ signals = <<>>
    /\ test_stdout = ""
    /\ test_stderr = <<>>
    /\ return_code = 0
    /\ current_mock_code = <<>>
    /\ current_test_code = <<>>
    /\ files = [a \in Assets |-> [mock |-> <<"m">>, test |-> <<"t">>]]
    /\ outcome = [a \in Assets |-> "Init"]
    /\ reported = [a \in Assets |-> FALSE]
    /\ exit_path = "none"
    /\ nStarts = 0
    /\ nTests = 0
    /\ nRepairs = 0
    /\ nEdge = 0
    /\ fix_prompt = NoPrompt
    /\ fix_suggestion = NoSuggestion
    /\ gpc = "phase1"
    /\ cloned_repo_path = "unset"
    /\ scanned = FALSE
    /\ p1_llm_calls = 0
    /\ qa_reference_file = "unset"
    /\ qa_file_exists = FALSE
    /\ qa_read = "unread"
    /\ identified_services_text = [kind |-> "none", lines |-> <<>>]
    /\ services_to_test = <<>>
    /\ gi = 1
    /\ generated_assets = <<>>
    /\ gfiles = {}
    /\ llm_calls = 0
    /\ parser_invoked = FALSE
    /\ attempted = <<>>
    /\ run_event = NoRunEvent
    /\ run_result = [out |-> "", err |-> <<>>, rc |-> 0]
    /\ llm_event = NoBackendEvent
    /\ llm_result = [kind |-> "none", text |-> <<>>]
    /\ disk = [exists |-> FALSE, data |-> <<>>]
    /\ last_saved = [done |-> FALSE, code |-> <<>>, ok |-> FALSE]
    /\ store_read = [kind |-> "unread", text |-> <<>>]

\* --------------------------------------------------------------- actions
\* 208-220: next asset of the outer loop, entering the inner loop
BeginAsset ==
    /\ pc = "asset"
    /\ idx <= NumAssets
    /\ current_mock_code' = read_file_content(files, idx, "mock")
    /\ current_test_code' = read_file_content(files, idx, "test")
    /\ attempt' = 0
    /\ pc' = "start"
    /\ outcome' = [outcome EXCEPT ![idx] = "Attempting"]
    /\ exit_path' = "none"
    /\ nStarts' = 0
    /\ nTests' = 0
    /\ nRepairs' = 0
    /\ nEdge' = 0
    /\ UNCHANGED <<signals, idx, brk, all_tests_passed_overall, passed, mock_process,
                   live, held, test_stdout, test_stderr, return_code, files,
                   reported>>
    /\ UNCHANGED <<fix_prompt, fix_suggestion>>
    /\ UNCHANGED genVars
    /\ UNCHANGED utilVars

\* 224-236: mock_process = None; start the mock; on failure break
StartMock ==
    /\ pc = "start"
    /\ \E r \in StartResults :
         LET s == StartBackgroundProcess(r, Pid(idx, attempt))
         IN  /\ mock_process' = s.handle
             /\ live' = live \cup s.running
             /\ held' = IF s.handle # NoProcess
                        THEN held \cup {s.handle} ELSE held
             /\ IF s.handle = NoProcess
                THEN /\ all_tests_passed_overall' = FALSE
                     /\ brk' = TRUE
                     /\ pc' = "finally"
                     /\ exit_path' = "start_failed"
                     /\ outcome' = [outcome EXCEPT ![idx] = "Aborted"]
                ELSE /\ pc' = "run_test"
                     /\ brk' = FALSE
                     /\ exit_path' = "none"
                     /\ UNCHANGED <<all_tests_passed_overall, outcome>>
    /\ nStarts' = Bump(nStarts)
    /\ UNCHANGED <<idx, attempt, passed, test_stdout, test_stderr,
                   return_code, current_mock_code, current_test_code, files,
                   reported, nTests, nRepairs, nEdge>>
    /\ signals' = <<>>
    /\ UNCHANGED <<fix_prompt, fix_suggestion>>
    /\ UNCHANGED genVars
    /\ UNCHANGED utilVars

\* 238-244: run the test script against the mock
RunTest ==
    /\ pc = "run_test"
    /\ \E res \in RunResults :
         /\ test_stdout' = res.out
         /\ test_stderr' = res.err
         /\ return_code' = res.rc
    /\ nTests' = Bump(nTests)
    /\ pc' = "classify"
    /\ UNCHANGED <<signals, idx, attempt, brk, all_tests_passed_overall, passed,
                   mock_process, live, held, current_mock_code,
                   current_test_code, files, outcome, reported, exit_path,
                   nStarts, nRepairs, nEdge>>
    /\ UNCHANGED <<fix_prompt, fix_suggestion>>
    /\ UNCHANGED genVars
    /\ UNCHANGED utilVars

\* 258-267, 294-296, 340-342: the verdict and the branch it selects
Classify ==
    /\ pc = "classify"
    /\ passed' = CheckPassed(return_code, test_stderr)
    /\ LET branch == AfterClassify(passed', attempt)
       IN  /\ pc' = IF branch \in {"edge", "fix"} THEN branch ELSE "finally"
           /\ all_tests_passed_overall' =
                  IF branch \in {"fix", "exhausted"}
                  THEN FALSE ELSE all_tests_passed_overall
           /\ fix_prompt' =
                  IF branch = "fix"
                  THEN get_udp_fix_failure_prompt(current_mock_code,
                                                  current_test_code,
                                                  test_stdout, test_stderr,
                                                  MockLogsPlaceholder)
                  ELSE fix_prompt
           /\ exit_path' = IF branch = "exhausted" THEN "exhausted"
                           ELSE exit_path
           /\ outcome' = IF passed' = "True"
                         THEN [outcome EXCEPT ![idx] = "Passed"]
                         ELSE IF branch = "exhausted"
                         THEN [outcome EXCEPT ![idx] = "Exhausted"]
                         ELSE outcome
    /\ brk' = FALSE
    /\ UNCHANGED <<signals, idx, attempt, mock_process, live, held, test_stdout,
                   test_stderr, return_code, current_mock_code,
                   current_test_code, files, reported, nStarts, nTests,
                   nRepairs, nEdge>>
    /\ UNCHANGED fix_suggestion
    /\ UNCHANGED genVars
    /\ UNCHANGED utilVars

\* 267-291 with the handler 345-348: the edge-case block
EdgeCases ==
    /\ pc = "edge"
    /\ nEdge' = Bump(nEdge)
    /\ \E resp \in LLMResults :
         IF EdgeCasePromptRaises \/ resp.kind = "raise"
         THEN /\ all_tests_passed_overall' = FALSE
              /\ exit_path' = "edge_exception"
         ELSE /\ exit_path' = "passed"
              /\ UNCHANGED all_tests_passed_overall
    /\ brk' = TRUE
    /\ pc' = "finally"
    /\ UNCHANGED <<signals, idx, attempt, passed, mock_process, live, held,
                   test_stdout, test_stderr, return_code, current_mock_code,
                   current_test_code, files, outcome, reported, nStarts,
                   nTests, nRepairs>>
    /\ UNCHANGED <<fix_prompt, fix_suggestion>>
    /\ UNCHANGED genVars
    /\ UNCHANGED utilVars

\* 297-338 with the handler 345-348: request a repair and apply it
Fix ==
    /\ pc = "fix"
    /\ nRepairs' = Bump(nRepairs)
    /\ \E resp \in LLMResults, mock_saved \in BOOLEAN, test_saved \in BOOLEAN :
         LET hasMock == Contains(resp.text, <<new_mock_code_marker>>)
             hasTest == Contains(resp.text, <<new_test_code_marker>>)
             newMock == IF hasMock THEN ExtractMock(resp.text)
                        ELSE current_mock_code
             newTest == IF hasTest THEN ExtractTest(resp.text)
                        ELSE current_test_code
             afterMock == IF hasMock
                          THEN save_code_to_file(files, idx, "mock", newMock,
                                                 mock_saved)
                          ELSE files
             afterTest == IF hasTest
                          THEN save_code_to_file(afterMock, idx, "test",
                                                 newTest, test_saved)
                          ELSE afterMock
         IN  /\ fix_suggestion' = resp
             /\ fix_prompt' = NoPrompt
             /\ IF resp.kind = "raise"
                THEN /\ all_tests_passed_overall' = FALSE
                     /\ brk' = FixBreaks(resp)
                     /\ exit_path' = "exception"
                     /\ outcome' = [outcome EXCEPT ![idx] = "Aborted"]
                     /\ UNCHANGED <<current_mock_code, current_test_code, files>>
                ELSE IF resp.kind = "none" \/ resp.text = <<>>
                THEN /\ brk' = FixBreaks(resp)
                     /\ exit_path' = "no_fix"
                     /\ outcome' = [outcome EXCEPT ![idx] = "Aborted"]
                     /\ UNCHANGED <<all_tests_passed_overall, current_mock_code,
                                    current_test_code, files>>
                ELSE /\ current_mock_code' = newMock
                     /\ current_test_code' = newTest
                     /\ files' = afterTest
                     /\ brk' = FixBreaks(resp)
                     /\ exit_path' = IF hasMock \/ hasTest
                                     THEN "fixed" ELSE "no_markers"
                     /\ outcome' = IF hasMock \/ hasTest THEN outcome
                                   ELSE [outcome EXCEPT ![idx] = "Aborted"]
                     /\ UNCHANGED all_tests_passed_overall
    /\ pc' = "finally"
    /\ UNCHANGED <<signals, idx, attempt, passed, mock_process, live, held,
                   test_stdout, test_stderr, return_code, reported, nStarts,
                   nTests, nEdge>>
    /\ UNCHANGED genVars
    /\ UNCHANGED utilVars

\* 349-351 and the loop control 220: stop the mock, then leave the inner
\* loop or begin the next attempt
Finally ==
    /\ pc = "finally"
    /\ \E ignoresTerm \in BOOLEAN :
         /\ live' = IF FinallyStops(mock_process)
                    THEN StopBackgroundProcess(mock_process, live,
                                               ignoresTerm)
                    ELSE live
         /\ signals' = IF FinallyStops(mock_process)
                       THEN StopSignals(mock_process, live, ignoresTerm)
                       ELSE <<>>
    /\ held' = IF FinallyStops(mock_process)
               THEN held \ {mock_process} ELSE held
    /\ IF ~brk /\ RangeHasNext(attempt)
       THEN /\ attempt' = NextAttempt(attempt)
            /\ pc' = "start"
       ELSE /\ pc' = "after_loop"
            /\ UNCHANGED attempt
    /\ UNCHANGED <<idx, brk, all_tests_passed_overall, passed, mock_process,
                   test_stdout, test_stderr, return_code, current_mock_code,
                   current_test_code, files, outcome, reported, exit_path,
                   nStarts, nTests, nRepairs, nEdge>>
    /\ fix_suggestion' = NoSuggestion
    /\ UNCHANGED fix_prompt
    /\ UNCHANGED genVars
    /\ UNCHANGED utilVars

\* 353-354: the per-asset report; reading the unbound local raises out of
\* phase_3
AfterLoop ==
    /\ pc = "after_loop"
    /\ IF ~all_tests_passed_overall /\ passed = "unbound"
       THEN /\ pc' = "crashed"
            /\ UNCHANGED <<idx, reported>>
       ELSE /\ reported' = [reported EXCEPT ![idx] =
                               ~all_tests_passed_overall /\ passed = "False"]
            /\ idx' = idx + 1
            /\ pc' = "asset"
    /\ UNCHANGED <<attempt, brk, all_tests_passed_overall, passed,
                   mock_process, live, held, test_stdout, test_stderr,
                   return_code, current_mock_code, current_test_code, files,
                   outcome, exit_path, nStarts, nTests, nRepairs, nEdge>>
    /\ signals' = <<>>
    /\ UNCHANGED <<fix_prompt, fix_suggestion>>
    /\ UNCHANGED genVars
    /\ UNCHANGED utilVars

\* 357-360: the overall report
Summary ==
    /\ pc = "asset"
    /\ idx > NumAssets
    /\ pc' = "done"
    /\ UNCHANGED <<signals, idx, attempt, brk, all_tests_passed_overall, passed,
                   mock_process, live, held, test_stdout, test_stderr,
                   return_code, current_mock_code, current_test_code, files,
                   outcome, reported, exit_path, nStarts, nTests, nRepairs,
                   nEdge>>
    /\ UNCHANGED <<fix_prompt, fix_suggestion>>
    /\ UNCHANGED genVars
    /\ UNCHANGED utilVars

\* environment: a running mock exits on its own
MockExits ==
    /\ \E p \in live : live' = live \ {p}
    /\ UNCHANGED <<signals, pc, idx, attempt, brk, all_tests_passed_overall, passed,
                   mock_process, held, test_stdout, test_stderr, return_code,
                   current_mock_code, current_test_code, files, outcome,
                   reported, exit_path, nStarts, nTests, nRepairs, nEdge>>
    /\ UNCHANGED <<fix_prompt, fix_suggestion>>
    /\ UNCHANGED genVars
    /\ UNCHANGED utilVars

\* ------------------------------------------------------ phase 2 and main
\* udp_qa_agent.py 115: the text is None or empty, or names no service
NoServicesIdentified(text) ==
    \/ text.kind = "none"
    \/ text.lines = <<>>
    \/ \E i \in 1..Len(text.lines) :
          Contains(Lower(text.lines[i].val), NoClearPhrase)

\* udp_qa_agent.py 126-136: one line of the scan; st.cur is the buffered
\* record (<<>> for the empty dict), st.services the output so far
ParseLineValidOnly(st, line) ==
    IF line.tag = NameTag
    THEN [services |-> IF st.cur # <<>> /\ st.cur[1].port.st = "int"
                       THEN Append(st.services, st.cur[1])
                       ELSE st.services,
          cur |-> <<[name |-> Strip(line.val),
                     port |-> [st |-> "missing", v |-> 0],
                     functionality |-> [has |-> FALSE, v |-> <<>>]]>>]
    ELSE IF line.tag = PortTag /\ st.cur # <<>>
    THEN LET r == ParseInt(Strip(line.val))
         IN  [st EXCEPT !.cur[1].port =
                  IF r.ok THEN [st |-> "int", v |-> r.v]
                  ELSE [st |-> "none", v |-> 0]]
    ELSE IF line.tag = FuncTag /\ st.cur # <<>>
    THEN [st EXCEPT !.cur[1].functionality =
              [has |-> TRUE, v |-> Strip(line.val)]]
    ELSE st

ParseLine(st, line) ==
    IF line.tag = NameTag
    THEN [services |-> IF st.cur # <<>>
                       THEN Append(st.services, st.cur[1])
                       ELSE st.services,
          cur |-> <<[name |-> Strip(line.val),
                     port |-> [st |-> "missing", v |-> 0],
                     functionality |-> [has |-> FALSE, v |-> <<>>]]>>]
    ELSE IF line.tag = PortTag /\ st.cur # <<>>
    THEN LET r == ParseInt(Strip(line.val))
         IN  [st EXCEPT !.cur[1].port =
                  IF r.ok THEN [st |-> "int", v |-> r.v]
                  ELSE [st |-> "none", v |-> 0]]
    ELSE IF line.tag = FuncTag /\ st.cur # <<>>
    THEN [st EXCEPT !.cur[1].functionality =
              [has |-> TRUE, v |-> Strip(line.val)]]
    ELSE st

RECURSIVE ScanLines(_, _, _)
ScanLines(lines, i, st) ==
    IF i > Len(lines) THEN st
    ELSE ScanLines(lines, i + 1, ParseLine(st, lines[i]))

\* udp_qa_agent.py 123-138: the scan and the flush of the last record
ParseServices(lines) ==
    LET st == ScanLines(lines, 1, [services |-> <<>>, cur |-> <<>>])
    IN  IF st.cur # <<>> /\ st.cur[1].port.st = "int"
        THEN Append(st.services, st.cur[1])
        ELSE st.services

\* udp_qa_agent.py 149-154: port = service_info.get("port"); if not port
SkipsServiceOnlyMissing(port) == port.st = "missing"

SkipsService(port) == port.st \in {"missing", "none"} \/ port.v = 0

\* udp_qa_agent.py 154, 166 and 179: continue, in a loop over n services
\* of which service i is the current one
ContinueLeavesLoop(i, n) == n + 1

Continue(i, n) == i + 1

\* udp_qa_agent.py 148: the normalised service name
ServiceName(name) == Lower(ReplaceSpaces(name))

\* udp_qa_agent.py 169 and 181: the paths of the two artifacts
MockPath(name, port) == [dir |-> "mocks", name |-> ServiceName(name),
                         port |-> port.v]
TestPath(name, port) == [dir |-> "tests", name |-> ServiceName(name),
                         port |-> port.v]

\* udp_qa_agent.py 29: if not cloned_repo_path
Phase1Aborts(path) == path = "none"

\* udp_qa_agent.py 89 and 94: the reference file is missing, or its content
\* is None or empty
Phase2AbortsOnlyMissing(exists, content) == ~exists

Phase2Aborts(exists, content) == ~exists \/ content \in {"none", "empty"}

\* 22-80: clone, scan, one backend call per readable file, write the
\* reference file (as JSON, or as text when the JSON write raised; the
\* text write swallows its error)
Phase1 ==
    /\ gpc = "phase1"
    /\ \E path \in {"none", "path"} :
         /\ cloned_repo_path' = path
         /\ IF Phase1Aborts(path)
            THEN /\ qa_reference_file' = "none"
                 /\ UNCHANGED <<scanned, p1_llm_calls, qa_file_exists>>
            ELSE /\ scanned' = TRUE
                 /\ \E readable \in 0..MaxFiles :
                      p1_llm_calls' = readable
                 /\ \E json_ok \in BOOLEAN, txt_saved \in BOOLEAN :
                      /\ qa_reference_file' =
                             IF json_ok THEN "json" ELSE "txt"
                      /\ qa_file_exists' = (json_ok \/ txt_saved)
    /\ gpc' = "after_phase1"
    /\ UNCHANGED <<identified_services_text, services_to_test, gi,
                   generated_assets, gfiles, llm_calls, parser_invoked,
                   attempted, qa_read>>
    /\ UNCHANGED phase3Vars
    /\ UNCHANGED utilVars

\* main 523-525: without a reference file the run ends
MainAfterPhase1 ==
    /\ gpc = "after_phase1"
    /\ gpc' = IF qa_reference_file = "none" THEN "exit" ELSE "phase2"
    /\ UNCHANGED <<identified_services_text, services_to_test, gi,
                   generated_assets, gfiles, llm_calls, parser_invoked,
                   attempted>>
    /\ UNCHANGED upstreamVars
    /\ UNCHANGED phase3Vars
    /\ UNCHANGED utilVars

\* 89-96: phase 2 reads the reference file and returns [] without it
Phase2Read ==
    /\ gpc = "phase2"
    /\ \E content \in {"none", "empty", "text"} :
         /\ qa_read' = IF ~qa_file_exists THEN "missing" ELSE content
         /\ gpc' = IF Phase2Aborts(qa_file_exists, content)
                   THEN "returned" ELSE "identify"
    /\ UNCHANGED <<identified_services_text, services_to_test, gi,
                   generated_assets, gfiles, llm_calls, parser_invoked,
                   attempted, cloned_repo_path, scanned, p1_llm_calls,
                   qa_reference_file, qa_file_exists>>
    /\ UNCHANGED phase3Vars
    /\ UNCHANGED utilVars

\* 112-142: ask the backend for the services and scan its text
Identify ==
    /\ gpc = "identify"
    /\ \E text \in CatalogTexts :
         /\ identified_services_text' = text
         /\ IF NoServicesIdentified(text)
            THEN /\ gpc' = "returned"
                 /\ UNCHANGED <<services_to_test, parser_invoked>>
            ELSE /\ services_to_test' = ParseServices(text.lines)
                 /\ parser_invoked' = TRUE
                 /\ gpc' = IF services_to_test' = <<>>
                           THEN "returned" ELSE "loop"
    /\ llm_calls' = llm_calls + 1
    /\ UNCHANGED <<gi, generated_assets, gfiles, attempted>>
    /\ UNCHANGED upstreamVars
    /\ UNCHANGED phase3Vars
    /\ UNCHANGED utilVars

\* 147-192: one iteration of the generation loop
GenerateService ==
    /\ gpc = "loop"
    /\ gi <= Len(services_to_test)
    /\ LET service_info == services_to_test[gi]
           port == service_info.port
           mock_file_path == MockPath(service_info.name, port)
           test_file_path == TestPath(service_info.name, port)
           n == Len(services_to_test)
       IN  IF SkipsService(port)
           THEN /\ gi' = Continue(gi, n)
                /\ UNCHANGED <<generated_assets, gfiles, llm_calls,
                               attempted>>
           ELSE /\ attempted' = Append(attempted,
                                      [name |-> service_info.name,
                                       port |-> port])
                /\ \E mock_code \in GenResults, test_code \in GenResults,
                      mock_saved \in BOOLEAN, test_saved \in BOOLEAN :
                     LET afterMock == IF mock_saved
                                      THEN gfiles \cup {mock_file_path}
                                      ELSE gfiles
                     IN  IF mock_code # "code"
                         THEN /\ llm_calls' = llm_calls + 1
                              /\ gi' = Continue(gi, n)
                              /\ UNCHANGED <<generated_assets, gfiles>>
                         ELSE IF test_code # "code"
                         THEN /\ llm_calls' = llm_calls + 2
                              /\ gfiles' = afterMock \ {mock_file_path}
                              /\ gi' = Continue(gi, n)
                              /\ UNCHANGED generated_assets
                         ELSE /\ llm_calls' = llm_calls + 2
                              /\ gi' = gi + 1
                              /\ gfiles' = IF test_saved
                                           THEN afterMock
                                                \cup {test_file_path}
                                           ELSE afterMock
                              /\ generated_assets' =
                                     Append(generated_assets,
                                            [service_name |->
                                                 ServiceName(
                                                     service_info.name),
                                             port |-> port.v,
                                             mock_file |-> mock_file_path,
                                             test_file |-> test_file_path])
    /\ UNCHANGED <<gpc, identified_services_text, services_to_test,
                   parser_invoked>>
    /\ UNCHANGED upstreamVars
    /\ UNCHANGED phase3Vars
    /\ UNCHANGED utilVars

\* 194: return generated_assets
GenReturn ==
    /\ gpc = "loop"
    /\ gi > Len(services_to_test)
    /\ gpc' = "returned"
    /\ UNCHANGED <<identified_services_text, services_to_test, gi,
                   generated_assets, gfiles, llm_calls, parser_invoked,
                   attempted>>
    /\ UNCHANGED upstreamVars
    /\ UNCHANGED phase3Vars
    /\ UNCHANGED utilVars

\* main 527-531: phase 3 runs only for a non-empty asset list
MainAfterPhase2 ==
    /\ gpc = "returned"
    /\ gpc' = IF generated_assets = <<>> THEN "exit" ELSE "phase3"
    /\ UNCHANGED <<identified_services_text, services_to_test, gi,
                   generated_assets, gfiles, llm_calls, parser_invoked,
                   attempted>>
    /\ UNCHANGED upstreamVars
    /\ UNCHANGED phase3Vars
    /\ UNCHANGED utilVars

GenNext ==
    \/ Phase1
    \/ MainAfterPhase1
    \/ Phase2Read
    \/ Identify
    \/ GenerateService
    \/ GenReturn
    \/ MainAfterPhase2

GenSpec == Init /\ [][GenNext]_vars

\* ----------------------------------------- the utilities, one call each
\* agent_utils.py 177-199: one call of run_script_and_get_output
RunScript ==
    /\ \E ev \in RunEvents :
         /\ run_event' = ev
         /\ run_result' = run_script_and_get_output(ev)
    /\ UNCHANGED <<llm_event, llm_result, disk, last_saved, store_read>>
    /\ UNCHANGED <<genVars, phase3Vars>>

\* agent_utils.py 93-134: one call of call_ollama_llm
CallBackend ==
    /\ \E ev \in BackendEvents :
         /\ llm_event' = ev
         /\ llm_result' = call_ollama_llm(ev)
    /\ UNCHANGED <<run_event, run_result, disk, last_saved, store_read>>
    /\ UNCHANGED <<genVars, phase3Vars>>

\* agent_utils.py 82-90: one call of save_code_to_file; ok = FALSE: makedirs
\* or open raised and the handler swallowed it
SaveCode ==
    /\ \E code \in CodeTexts, ok \in BOOLEAN :
         /\ disk' = IF ok THEN [exists |-> TRUE, data |-> WriteText(code)]
                    ELSE disk
         /\ last_saved' = [done |-> TRUE, code |-> code, ok |-> ok]
    /\ store_read' = [kind |-> "unread", text |-> <<>>]
    /\ UNCHANGED <<run_event, run_result, llm_event, llm_result>>
    /\ UNCHANGED <<genVars, phase3Vars>>

\* agent_utils.py 73-80: one call of read_file_content
ReadFile ==
    /\ store_read' = IF disk.exists
                     THEN [kind |-> "text", text |-> ReadText(disk.data)]
                     ELSE [kind |-> "none", text |-> <<>>]
    /\ UNCHANGED <<run_event, run_result, llm_event, llm_result, disk,
                   last_saved>>
    /\ UNCHANGED <<genVars, phase3Vars>>

UtilNext ==
    \/ RunScript
    \/ CallBackend
    \/ SaveCode
    \/ ReadFile

UtilSpec == Init /\ [][UtilNext]_vars

ControllerStep ==
    \/ BeginAsset
    \/ StartMock
    \/ RunTest
    \/ Classify
    \/ EdgeCases
    \/ Fix
    \/ Finally
    \/ AfterLoop
    \/ Summary

Next ==
    \/ BeginAsset
    \/ StartMock
    \/ RunTest
    \/ Classify
    \/ EdgeCases
    \/ Fix
    \/ Finally
    \/ AfterLoop
    \/ Summary
    \/ MockExits

Spec == Init /\ [][Next]_vars

\* every blocking call of the controller returns
FairSpec == Spec /\ WF_vars(ControllerStep)

TypeOK ==
    /\ pc \in {"asset", "start", "run_test", "classify", "edge", "fix",
               "finally", "after_loop", "done", "crashed"}
    /\ idx \in 1..(NumAssets + 1)
    /\ passed \in {"unbound", "True", "False"}
    /\ \A a \in Assets : outcome[a] \in {"Init", "Attempting"} \cup Terminal

\* ----------------------------------------------------------------- claims
SpecPass(rc, stderr) ==
    /\ rc = 0
    /\ Contains(stderr, <<"O", "K">>)
    /\ ~Contains(stderr, <<"F", "A", "I", "L">>)
    /\ ~Contains(stderr, <<"E", "R", "R", "O", "R">>)

\* C1: when the run has ended, every asset of the run has been driven to a
\* terminal state (Passed, Exhausted or Aborted), also when an earlier asset
\* aborted on a start failure of its first attempt.
C1_EveryAssetReachesTerminal ==
    pc \in {"done", "crashed"} => \A a \in Assets : outcome[a] \in Terminal

\* C2: for every asset the number of attempts (mock starts, and test runs
\* following them) never exceeds MAX_REFINEMENT_RETRIES + 1.
C2_AttemptsBounded ==
    /\ nStarts <= MAX_REFINEMENT_RETRIES + 1
    /\ nTests <= nStarts
    /\ attempt <= MAX_REFINEMENT_RETRIES

C2_Witness ==
    /\ nStarts = MAX_REFINEMENT_RETRIES + 1
    /\ nTests = MAX_REFINEMENT_RETRIES + 1
    /\ pc = "classify"

\* C3: provided every blocking call returns, the refinement loop an asset
\* has entered is eventually left with the asset in a terminal state: an
\* entered loop is eventually left, and the asset whose loop was left is in
\* a terminal state.
C3_LoopTerminates ==
    /\ [](pc = "after_loop" => outcome[idx] \in Terminal)
    /\ (pc = "start" ~> pc = "after_loop")

C3_Witness ==
    /\ pc = "after_loop"
    /\ outcome[idx] = "Exhausted"
    /\ nRepairs = MAX_REFINEMENT_RETRIES

\* C4: after a start failure the asset is Aborted, no test was run and no
\* repair was requested in that attempt, no further attempt follows, and
\* the controller does not raise.
C4_StartFailureAborts ==
    (exit_path = "start_failed" /\ pc \in {"finally", "after_loop", "crashed"})
        => /\ outcome[idx] = "Aborted"
           /\ nTests = nStarts - 1
           /\ nRepairs = nStarts - 1
           /\ attempt = nStarts - 1
           /\ pc # "crashed"

\* C5: whenever the controller is between attempts or has left an asset, no
\* process it started is running and no handle is unreleased, whichever
\* way the attempt ended.
C5_MockStoppedOnEveryExit ==
    pc \in {"asset", "start", "after_loop", "done", "crashed"}
        => live = {} /\ held = {}

C5_Witness ==
    /\ pc = "after_loop"
    /\ exit_path = "exception"
    /\ mock_process # NoProcess
    /\ live = {}

\* C6 (as stated): the handle of the attempt is released before the run
\* result is classified and before any backend request or patch write.
C6_ReleasedBeforeClassify ==
    pc \in {"classify", "edge", "fix"} => held = {}

\* C6 (amended): the handle of the attempt is still held while the result
\* is classified, while the edge-case or repair request is made and while
\* patches are written; it is released at the end of the attempt, before
\* the next attempt starts and before the controller leaves the asset.
C6_ReleasedAtEndOfAttempt ==
    /\ pc \in {"classify", "edge", "fix", "finally"}
           => (mock_process # NoProcess => held = {mock_process})
    /\ pc \in {"start", "after_loop"} => held = {}

C6_Witness ==
    /\ pc = "finally"
    /\ exit_path = "fixed"
    /\ held = {mock_process}
    /\ files[idx].mock = <<"p">>

\* C7: once a run result is classified, the verdict is Pass exactly when
\* the exit code is 0 and stderr contains "OK" and neither "FAIL" nor
\* "ERROR".
C7_VerdictPolicy ==
    (pc \in {"edge", "fix"} \/ (pc = "finally" /\ exit_path = "exhausted"))
        => /\ passed \in {"True", "False"}
           /\ passed = "True" <=> SpecPass(return_code, test_stderr)

C7_Witness ==
    /\ pc = "fix"
    /\ passed = "False"
    /\ return_code = 1
    /\ test_stderr = StderrOk

\* C8: at the end of a run overall success is reported exactly when every
\* asset ended Passed.
C8_OverallIffAllPassed ==
    pc = "done"
        => (all_tests_passed_overall
                <=> \A a \in Assets : outcome[a] = "Passed")

\* C9: the edge-case block changes neither the overall result, nor the
\* recorded outcome of any asset, nor any artifact.
C9_AugmenterAdvisory ==
    [][pc = "edge"
          => /\ all_tests_passed_overall' = all_tests_passed_overall
             /\ outcome' = outcome
             /\ files' = files]_vars

\* C10: the edge-case block is entered only after a Pass verdict and at
\* most once per asset, and once an asset is Passed no further mock start,
\* test run or repair request happens for it.
C10_AugmenterOnlyAfterPassOnce ==
    [][/\ nEdge' > nEdge
            => passed = "True" /\ outcome[idx] = "Passed" /\ nEdge = 0
       /\ (idx \in Assets /\ outcome[idx] = "Passed")
            => /\ nStarts' = nStarts
               /\ nTests' = nTests
               /\ nRepairs' = nRepairs]_vars

C10_Witness ==
    /\ pc = "after_loop"
    /\ nEdge = 1
    /\ outcome[idx] = "Passed"
    /\ nStarts = 2

\* C11: a repair response with neither marker aborts the asset: the step
\* writes no artifact and changes no in-memory code, and no further attempt
\* is started for the asset.
C11_NoMarkersAborts ==
    [][/\ (pc = "fix" /\ exit_path' = "no_markers")
            => /\ files' = files
               /\ current_mock_code' = current_mock_code
               /\ current_test_code' = current_test_code
               /\ outcome'[idx] = "Aborted"
       /\ (pc = "finally" /\ exit_path = "no_markers")
            => /\ pc' \in {"finally", "after_loop"}
               /\ nStarts' = nStarts
               /\ outcome'[idx] = "Aborted"]_vars

C11_Witness ==
    /\ pc = "after_loop"
    /\ exit_path = "no_markers"
    /\ outcome[idx] = "Aborted"
    /\ nRepairs = 1

\* C12: a repair request that fails (None, empty text, or an exception out
\* of the backend call) aborts the asset: no artifact is modified, no
\* further attempt is made, and the run goes on to the next asset.
C12_BackendFailureAborts ==
    [][/\ (pc = "fix" /\ exit_path' \in {"no_fix", "exception"})
            => /\ files' = files
               /\ outcome'[idx] = "Aborted"
       /\ (pc = "finally" /\ exit_path \in {"no_fix", "exception"})
            => /\ pc' \in {"finally", "after_loop"}
               /\ nStarts' = nStarts
       /\ (pc = "after_loop" /\ exit_path \in {"no_fix", "exception"})
            => \/ pc' = "after_loop"
               \/ pc' = "asset" /\ idx' = idx + 1]_vars

C12_Witness ==
    /\ pc = "asset"
    /\ idx = 2
    /\ exit_path = "no_fix"
    /\ outcome[1] = "Aborted"
    /\ files[1] = [mock |-> <<"m">>, test |-> <<"t">>]

C14_StopLeavesNotRunning ==
    [][(pc = "finally" /\ pc' # "finally" /\ mock_process \in live)
          => /\ mock_process \notin live'
             /\ signals' \in {<<"terminate">>, <<"terminate", "kill">>}]_vars

C14_Witness ==
    /\ pc \in {"start", "after_loop"}
    /\ signals = <<"terminate", "kill">>
    /\ mock_process # NoProcess
    /\ mock_process \notin live

\* C15: stop on an absent handle, on a process that has already exited, or
\* a second time on the same handle sends no signal and leaves the set of
\* running processes unchanged.
C15_StopIdempotent ==
    [][pc = "finally"
          => /\ \A ig \in BOOLEAN :
                  LET after == StopBackgroundProcess(mock_process, live, ig)
                  IN  /\ StopSignals(mock_process, after, ig) = <<>>
                      /\ StopBackgroundProcess(mock_process, after, ig)
                             = after
                      /\ StopSignals(NoProcess, live, ig) = <<>>
                      /\ StopBackgroundProcess(NoProcess, live, ig) = live
             /\ (pc' # "finally" /\ mock_process \notin live)
                  => signals' = <<>> /\ live' = live]_vars

C15_Witness ==
    /\ pc = "after_loop"
    /\ mock_process # NoProcess
    /\ signals = <<>>
    /\ live = {}

\* C16: start does not raise; a handle is returned only for a process that
\* is running, and a start failure leaves no process of that call running.
C16_StartReturnsLiveOrFailure ==
    [][pc = "start"
          => /\ pc' \in {"run_test", "finally"}
             /\ mock_process' # NoProcess
                  => mock_process' \in live' /\ pc' = "run_test"
             /\ mock_process' = NoProcess
                  => live' = live /\ pc' = "finally"]_vars

C16_Witness ==
    /\ pc = "finally"
    /\ exit_path = "start_failed"
    /\ mock_process = NoProcess
    /\ live = {}
    /\ nStarts = 2

\* C17: at most one mock process is running and at most one handle is held
\* at any time; a mock is started only when none is running; the assets
\* before the current one are terminal and those after it are untouched.
C17_OneLiveMock ==
    /\ Cardinality(live) <= 1
    /\ Cardinality(held) <= 1
    /\ pc = "start" => live = {} /\ held = {}
    /\ \A a \in Assets :
         /\ a < idx => outcome[a] \in Terminal
         /\ a > idx => outcome[a] = "Init"

C17_Witness ==
    /\ idx = 2
    /\ pc = "run_test"
    /\ attempt = 1
    /\ Cardinality(live) = 1
    /\ outcome[1] \in Terminal

\* ------------------------------------------------- claims about phase 2
\* the text consists of complete record blocks (name, port, functionality,
\* blank line) whose port text is either not a number or a positive integer
WellFormedBlocks(lines) ==
    /\ Len(lines) % 4 = 0
    /\ \A b \in 1..(Len(lines) \div 4) :
         /\ lines[4 * b - 3].tag = NameTag
         /\ lines[4 * b - 2].tag = PortTag
         /\ lines[4 * b - 1].tag = FuncTag
         /\ lines[4 * b].tag = ""
         /\ LET r == ParseInt(lines[4 * b - 2].val) IN r.ok => r.v > 0

\* the valid descriptors of a well-formed text, in source order
RECURSIVE ExpectedDescriptors(_, _)
ExpectedDescriptors(lines, b) ==
    IF 4 * b > Len(lines) THEN <<>>
    ELSE LET r == ParseInt(lines[4 * b - 2].val)
         IN  (IF r.ok
              THEN <<[name |-> lines[4 * b - 3].val, port |-> r.v]>>
              ELSE <<>>)
             \o ExpectedDescriptors(lines, b + 1)

MalformedBlocks(lines) ==
    {b \in 1..(Len(lines) \div 4) : ~ParseInt(lines[4 * b - 2].val).ok}

HasPhrase(text) ==
    \E i \in 1..Len(text.lines) :
        text.lines[i].val \in {NoClearPhrase, NoClearPhraseCapitalised}

\* the text has no record with a positive-integer port
CatalogEmpty(text) ==
    \/ text.kind = "none"
    \/ text.lines = <<>>
    \/ HasPhrase(text)
    \/ ~\E i \in 1..Len(text.lines) :
           /\ text.lines[i].tag = PortTag
           /\ ParseInt(text.lines[i].val).ok
           /\ ParseInt(text.lines[i].val).v > 0

\* C18: every service for which mock/test generation is attempted has an
\* integer port strictly greater than 0.
C18_AttemptedPortsPositive ==
    \A i \in 1..Len(attempted) :
        attempted[i].port.st = "int" /\ attempted[i].port.v > 0

C20_EmptyCatalogNoWork ==
    (gpc # "identify" /\ CatalogEmpty(identified_services_text))
        => /\ attempted = <<>>
           /\ generated_assets = <<>>
           /\ gfiles = {}
           /\ gpc # "phase3"
           /\ (identified_services_text.kind = "text"
                 /\ HasPhrase(identified_services_text))
                => llm_calls = 1 /\ ~parser_invoked

\* the number of record blocks the text opens
RecordBlocks(text) ==
    Cardinality({i \in 1..Len(text.lines) : text.lines[i].tag = NameTag})

\* what phase 2 returns for a text with no record block at all (line 142)
ReturnedForNoBlock == <<>>

\* C21: when record blocks were parsed but none has a valid port, the value
\* the catalog step hands its caller differs from the one it hands back for
\* a text with no record block at all.
C21_NoUsableDistinguished ==
    (/\ gpc \in {"returned", "exit", "phase3"}
     /\ identified_services_text.kind = "text"
     /\ ~HasPhrase(identified_services_text)
     /\ RecordBlocks(identified_services_text) > 0
     /\ CatalogEmpty(identified_services_text))
        => generated_assets # ReturnedForNoBlock

\* C22: after the generation step of a service, whichever call failed,
\* either both files exist and the asset is in the list, or neither file
\* exists and the asset is not in the list.
C22_AtomicPairing ==
    \A i \in 1..Len(attempted) :
        LET mp == MockPath(attempted[i].name, attempted[i].port)
            tp == TestPath(attempted[i].name, attempted[i].port)
            inList == \E j \in 1..Len(generated_assets) :
                          generated_assets[j].mock_file = mp
        IN  \/ mp \in gfiles /\ tp \in gfiles /\ inList
            \/ mp \notin gfiles /\ tp \notin gfiles /\ ~inList

\* C23: at the start of every attempt the two files of the asset hold the
\* controller's in-memory mock and test content.
C23_FilesHoldCurrentCode ==
    pc = "start"
        => /\ read_file_content(files, idx, "mock") = current_mock_code
           /\ read_file_content(files, idx, "test") = current_test_code

\* C30: a repair step after which the loop goes on to another attempt
\* leaves at least one of the two files with content that differs from the
\* content the attempt just executed.
C30_NeverRerunsUnchanged ==
    [][(pc = "fix" /\ pc' = "finally" /\ ~brk')
          => \/ read_file_content(files', idx, "mock")
                    # read_file_content(files, idx, "mock")
             \/ read_file_content(files', idx, "test")
                    # read_file_content(files, idx, "test")]_vars

\* ------------------------------------------- claims about the utilities
\* C24: when running the test raises (timeout, missing interpreter or
\* script, or any other exception) the runner returns a non-zero exit code
\* and a non-empty stderr message.
C24_RunnerReturnsFailure ==
    run_event.kind \in {"not_found", "timeout", "exception"}
        => run_result.rc # 0 /\ run_result.err # <<>>

\* C25: every failure of a backend request (transport error, timeout, HTTP
\* error status, undecodable or non-text payload) reaches the caller as
\* None, and a text response never does.
C25_FailuresReachCallerAsNone ==
    /\ llm_event.kind \in BackendFailureKinds => llm_result.kind = "none"
    /\ llm_event.kind = "text" => llm_result.kind = "text"

\* C26: a text wrapped in an opening fence, with any language tag or none,
\* and a closing fence is returned as the text between them; a text without
\* fences is returned as it is.
C26_FenceStripping ==
    llm_event.kind = "text"
        => /\ (llm_event.open /\ llm_event.close)
                => llm_result.text = llm_event.inner
           /\ (~llm_event.open /\ ~llm_event.close)
                => llm_result.text = Body(llm_event)

\* C29: reading an artifact after a write of it returns the content that
\* was written.
C29_RoundTrip ==
    (last_saved.done /\ last_saved.ok /\ store_read.kind # "unread")
        => store_read.kind = "text" /\ store_read.text = last_saved.code

\* ------------------------------------------ claims about upstream failure
\* C27: when the checkout fails, phase 1 returns no reference file without
\* scanning; when the reference file cannot be read, phase 2 returns the
\* empty list; in both cases the failed phase made no backend request, and
\* no asset is generated and phase 3 is not entered.
C27_UpstreamFailureStops ==
    /\ cloned_repo_path = "none"
         => /\ ~scanned
            /\ p1_llm_calls = 0
            /\ qa_reference_file = "none"
            /\ gpc \in {"after_phase1", "exit"}
            /\ llm_calls = 0
            /\ attempted = <<>> /\ generated_assets = <<>> /\ gfiles = {}
    /\ qa_read \in {"missing", "none"}
         => /\ gpc \in {"returned", "exit"}
            /\ llm_calls = 0
            /\ ~parser_invoked
            /\ attempted = <<>> /\ generated_assets = <<>> /\ gfiles = {}

C27_Witness ==
    /\ gpc = "exit"
    /\ cloned_repo_path = "path"
    /\ qa_file_exists
    /\ qa_read = "none"
    /\ p1_llm_calls > 0

\* C31: the report after an asset's loop is made from that asset's own
\* verdict: when the loop of an asset is left at least one test run of this
\* asset has set the pass/fail flag, and the assets reported as not having
\* achieved passing tests are exactly those whose terminal state is not
\* Passed.
C31_ReportFromOwnVerdict ==
    /\ pc = "after_loop" => nTests > 0
    /\ pc \in {"asset", "done"}
           => \A a \in 1..(idx - 1) :
                  reported[a] <=> outcome[a] # "Passed"

\* the name lines of a catalog text, the lines of the record a name line
\* opens, and the state of that record's port field
NameLines(lines) == {i \in 1..Len(lines) : lines[i].tag = NameTag}

NthNameLine(lines, k) ==
    CHOOSE i \in NameLines(lines) :
        Cardinality({j \in NameLines(lines) : j <= i}) = k

RecordPortLines(lines, i) ==
    {j \in (i + 1)..Len(lines) :
        /\ lines[j].tag = PortTag
        /\ \A n \in NameLines(lines) : ~(i < n /\ n < j)}

RecordPortState(lines, i) ==
    IF RecordPortLines(lines, i) = {} THEN "missing"
    ELSE LET last == CHOOSE j \in RecordPortLines(lines, i) :
                         \A m \in RecordPortLines(lines, i) : m <= j
         IN  IF ParseInt(Strip(lines[last].val)).ok THEN "int" ELSE "none"

\* C32: the parse stage appends every record that is followed by another
\* name line, whatever the state of its port field, and appends the last
\* record only if it has a port field whose value parsed; the records keep
\* the order of their name lines. Stated of the list as the parse stage
\* leaves it, before the first entry is processed (the list does not change
\* afterwards).
C32_InteriorKeptLastChecked ==
    (parser_invoked /\ gi = 1)
        => LET lines == identified_services_text.lines
               n == Cardinality(NameLines(lines))
               lastKept ==
                   /\ n > 0
                   /\ RecordPortState(lines, NthNameLine(lines, n)) = "int"
           IN  /\ Len(services_to_test)
                      = IF lastKept THEN n ELSE IF n > 0 THEN n - 1 ELSE 0
               /\ \A k \in 1..Len(services_to_test) :
                      /\ services_to_test[k].name
                             = Strip(lines[NthNameLine(lines, k)].val)
                      /\ services_to_test[k].port.st
                             = RecordPortState(lines, NthNameLine(lines, k))

C32_Witness ==
    /\ parser_invoked
    /\ gi = 1
    /\ Cardinality(NameLines(identified_services_text.lines)) = 3
    /\ Len(services_to_test) = 2
    /\ services_to_test[1].port.st = "none"
    /\ services_to_test[2].port.st = "missing"

\* the first n characters of s
Prefix(s, n) == SubSeq(s, 1, IF Len(s) < n THEN Len(s) ELSE n)

\* C33 as stated: the repair request about to be sent carries the mock and
\* test content as they are after all patches so far and the stdout and
\* stderr of the most recent test run.
C33_RequestCarriesCurrentContent ==
    pc = "fix"
        => /\ fix_prompt.mock = current_mock_code
           /\ fix_prompt.test = current_test_code
           /\ fix_prompt.out = test_stdout
           /\ fix_prompt.err = test_stderr

\* C33 amended: the repair request about to be sent carries the first 2000
\* characters of the mock content and of the test content as they are after
\* all patches so far, and the first 1000 characters of the stdout and of
\* the stderr of the most recent test run.
C33_RequestCarriesCutContent ==
    pc = "fix"
        => /\ fix_prompt.mock = Prefix(current_mock_code, 2000)
           /\ fix_prompt.test = Prefix(current_test_code, 2000)
           /\ fix_prompt.out = Prefix(test_stdout, 1000)
           /\ fix_prompt.err = Prefix(test_stderr, 1000)

C33_Witness ==
    /\ pc = "fix"
    /\ nRepairs > 0
    /\ fix_prompt.mock = <<"p">>
    /\ fix_prompt.test = <<"q">>
    /\ Len(test_stdout) > 1000
    /\ Len(fix_prompt.out) = 1000

\* a response that names only the mock, or only the test, as its target
OnlyMockMarker(resp) ==
    /\ resp.kind = "text"
    /\ Contains(resp.text, <<new_mock_code_marker>>)
    /\ ~Contains(resp.text, <<new_test_code_marker>>)

OnlyTestMarker(resp) ==
    /\ resp.kind = "text"
    /\ Contains(resp.text, <<new_test_code_marker>>)
    /\ ~Contains(resp.text, <<new_mock_code_marker>>)

MockOutputs == {<<>>, <<"l", "o", "g">>}

\* C35: the repair request about to be sent carries the output the mock
\* process produced during the attempt.
C35_RequestCarriesMockOutput ==
    pc = "fix"
        => \E mock_output \in MockOutputs :
               fix_prompt.mock_logs = Prefix(mock_output, 1000)

\* the position of the first marker m in a text, of the first marker m
\* after position i (the end of the text if there is none), and the patch
\* between the first marker own and the next marker other
FirstMarker(text, m) ==
    CHOOSE i \in 1..Len(text) :
        text[i] = m /\ \A j \in 1..(i - 1) : text[j] # m

NextMarker(text, m, i) ==
    IF \E j \in (i + 1)..Len(text) : text[j] = m
    THEN CHOOSE j \in (i + 1)..Len(text) :
             text[j] = m /\ \A k \in (i + 1)..(j - 1) : text[k] # m
    ELSE Len(text) + 1

PatchRegion(text, own, other) ==
    FirstMarker(text, own)..(NextMarker(text, other,
                                        FirstMarker(text, own)) - 1)

PatchText(text, own, other) ==
    Strip(SubSeq(text, FirstMarker(text, own) + 1,
                 NextMarker(text, other, FirstMarker(text, own)) - 1))

\* C40: for a response with both markers, in either order, the mock patch
\* is the text from the first mock marker up to the next test marker or the
\* end, the test patch the text from the first test marker up to the next
\* mock marker or the end; neither patch contains the other target's
\* marker and the two regions do not overlap.
C40_BothMarkersDisjointPatches ==
    [][(/\ pc = "fix"
        /\ fix_suggestion'.kind = "text"
        /\ Contains(fix_suggestion'.text, <<new_mock_code_marker>>)
        /\ Contains(fix_suggestion'.text, <<new_test_code_marker>>))
          => LET text == fix_suggestion'.text
                 M == new_mock_code_marker
                 T == new_test_code_marker
             IN  /\ current_mock_code' = PatchText(text, M, T)
                 /\ current_test_code' = PatchText(text, T, M)
                 /\ ~Contains(current_mock_code', <<T>>)
                 /\ ~Contains(current_test_code', <<M>>)
                 /\ PatchRegion(text, M, T) \cap PatchRegion(text, T, M)
                        = {}]_vars

C40_Witness ==
    /\ pc = "finally"
    /\ fix_suggestion.kind = "text"
    /\ Len(fix_suggestion.text) = 6
    /\ Head(fix_suggestion.text) = new_test_code_marker
    /\ Contains(fix_suggestion.text, <<new_mock_code_marker>>)
    /\ current_mock_code = <<"p">>
    /\ current_test_code = <<"q">>

\* the result of a test run that timed out
TimedOutRun ==
    test_stdout = "" /\ return_code = 1 /\ test_stderr \in TimeoutMessages

\* C37: a test run that timed out is classified Fail whatever its message
\* contains: the asset is not Passed, a repair follows when attempts remain
\* and the asset is Exhausted otherwise.
C37_TimeoutNeverPass ==
    [][(pc = "classify" /\ pc' # "classify" /\ TimedOutRun)
          => /\ passed' = "False"
             /\ outcome'[idx] # "Passed"
             /\ attempt < MAX_REFINEMENT_RETRIES => pc' = "fix"
             /\ attempt >= MAX_REFINEMENT_RETRIES
                  => pc' = "finally" /\ outcome'[idx] = "Exhausted"]_vars

C37_Witness ==
    /\ pc = "finally"
    /\ exit_path = "exhausted"
    /\ TimedOutRun
    /\ test_stderr = StderrTimedOutNamed
    /\ outcome[idx] = "Exhausted"

\* C38: a stop call sends the force-kill only after the graceful terminate
\* to the same process and only when the process did not exit within the
\* wait; a process that exits within the wait is not killed, and a process
\* found already exited is sent no signal.
C38_KillOnlyAfterTimedOutTerminate ==
    [][(pc = "finally" /\ pc' # "finally")
          => /\ signals' \in {<<>>, <<"terminate">>, <<"terminate", "kill">>}
             /\ mock_process \notin live => signals' = <<>>
             /\ signals' = <<"terminate">> => mock_process \notin live'
             /\ \A ig \in BOOLEAN :
                  LET sent == StopSignals(mock_process, live, ig)
                  IN  /\ ~ig => sent \in {<<>>, <<"terminate">>}
                      /\ sent = <<"terminate", "kill">>
                           => ig /\ mock_process \in live]_vars

C38_Witness ==
    /\ pc = "start"
    /\ attempt > 0
    /\ signals = <<"terminate">>
    /\ mock_process # NoProcess
    /\ live = {}

\* the files of the assets in the list
AssetFiles(assets) ==
    {assets[k].mock_file : k \in 1..Len(assets)}
        \cup {assets[k].test_file : k \in 1..Len(assets)}

\* C36: generation for one catalog entry does not delete a file of an asset
\* already in the list: a file of a listed asset that exists before the
\* generation step of an entry exists after it, also when two entries
\* normalise to the same name and port and the second one's test
\* generation fails.
C36_ListedFilesKept ==
    [][\A f \in AssetFiles(generated_assets) :
           f \in gfiles => f \in gfiles']_vars

\* the entries of the parsed list whose port passes `if not port`
RECURSIVE UsableEntries(_)
UsableEntries(services) ==
    IF services = <<>> THEN <<>>
    ELSE (IF Head(services).port.st = "int" /\ Head(services).port.v # 0
          THEN <<[name |-> Head(services).name,
                  port |-> Head(services).port]>>
          ELSE <<>>)
         \o UsableEntries(Tail(services))

\* C39: a failure for one service (no usable port, empty mock response,
\* empty test response) skips that service only: when generation returns
\* every entry of the list was visited, every entry with a usable port was
\* attempted, and the returned assets are attempted services in catalog
\* order.
C39_FailureSkipsOneService ==
    (gpc = "returned" /\ parser_invoked)
        => /\ services_to_test # <<>> => gi = Len(services_to_test) + 1
           /\ attempted = UsableEntries(services_to_test)
           /\ \E f \in [1..Len(generated_assets) -> 1..Len(attempted)] :
                  /\ \A j, k \in 1..Len(generated_assets) :
                         j < k => f[j] < f[k]
                  /\ \A j \in 1..Len(generated_assets) :
                         /\ generated_assets[j].service_name
                                = ServiceName(attempted[f[j]].name)
                         /\ generated_assets[j].port
                                = attempted[f[j]].port.v

C39_Witness ==
    /\ gpc = "returned"
    /\ Len(services_to_test) = 3
    /\ Len(attempted) = 2
    /\ attempted[1].name = services_to_test[1].name
    /\ attempted[2].name = services_to_test[3].name
    /\ Len(generated_assets) = 1
    /\ generated_assets[1].service_name = ServiceName(attempted[2].name)

====
